---- MODULE Spec2Model ----
(***************************************************************************)
(* Model of the query engine of `tag` (src/src/parsers.rs) and of the      *)
(* per-file loop of main (src/src/main.rs).                                *)
(*                                                                         *)
(* A string is a sequence of one-character strings, so that lexing,        *)
(* trimming and string equality are computed character by character.       *)
(***************************************************************************)
EXTENDS Integers, Sequences, FiniteSets, TLC

VARIABLES
    pc,                 \* control location of the run
    query,              \* the query string handed to QueryParser::parse
    parsed,             \* Result of QueryParser::parse(Rule::tagsearch, query)
    tags,               \* tags of the file being tested
    ast,                \* Expr built by construct_query_ast for that file
    verdict,            \* [value, calls] of evaluate_ast(ast)
    args,               \* the command line: interactive, silent, filter_command, command
    file_index,         \* TaggedFiles main's loop has still to visit
    visited,            \* history: [file, ast, verdict, filtered] of every file visited
    file_matched_index, \* main's file_matched_index
    command_outputs,    \* main's command_outputs
    stdout,             \* paths printed by main, in order
    line,               \* first line of the file get_tags_from_file reads
    extracted,          \* Result of get_tags_from_file
    walk,               \* entries WalkDir has still to yield
    walked,             \* entries get_tags_from_files has been through
    tagged_files,       \* get_tags_from_files's tagged_files
    build,              \* [source, overflow_checks]: which interactive_output runs, and how it is built
    interactive_inputs, \* InteractiveInputs of the inspect loop
    previous_inputs,    \* InteractiveInputs at the start of the last iteration
    event,              \* key event of the last iteration
    command_key,        \* key read in command mode in the last iteration
    terminal            \* [raw_mode, alternate_screen] of the process's terminal

engineVars == <<query, parsed, tags, ast, verdict, args, file_index, visited,
                file_matched_index, command_outputs, stdout>>

tagVars == <<line, extracted>>

walkVars == <<walk, walked, tagged_files>>

uiVars == <<build, interactive_inputs, previous_inputs, event, command_key, terminal>>

vars == <<pc, engineVars, tagVars, walkVars, uiVars>>

(***************************************************************************)
(* Bounds of the model.                                                    *)
(***************************************************************************)
MaxToks == 6        \* lexemes in a generated well-formed query
MaxRaw == 3         \* lexemes in an arbitrary (mostly malformed) query
MaxTags == 2        \* tags in a file's tag list
MaxFiles == 3       \* files in the index walked by main
MaxDepth == 2       \* depth of an arbitrary Expr handed to evaluate_ast
MaxLine == 4        \* lexemes in an arbitrary first line of a file
MaxList == 3        \* tags in a formatted tagline
MaxWalk == 3        \* entries WalkDir yields below the root
MaxInspect == 3     \* files handed to interactive_output
MaxScroll == 1      \* distance of scroll_index from 0 and from u16::MAX

(***************************************************************************)
(* Characters and strings.                                                 *)
(***************************************************************************)
WHITESPACE == {" ", "\n"}

IdentChars == {"a", "b", "c", "d", "A", "1", "2", "3", "-"}

RECURSIVE Concat(_)
Concat(ss) == IF ss = <<>> THEN <<>> ELSE Head(ss) \o Concat(Tail(ss))

RECURSIVE Join(_, _)
Join(ss, sep) ==
    IF ss = <<>> THEN <<>>
    ELSE IF Len(ss) = 1 THEN Head(ss)
    ELSE Head(ss) \o sep \o Join(Tail(ss), sep)

\* str::trim: strip leading and trailing whitespace
RECURSIVE TrimStart(_)
TrimStart(s) ==
    IF s # <<>> /\ Head(s) \in WHITESPACE THEN TrimStart(Tail(s)) ELSE s

RECURSIVE TrimEnd(_)
TrimEnd(s) ==
    IF s # <<>> /\ s[Len(s)] \in WHITESPACE
    THEN TrimEnd(SubSeq(s, 1, Len(s) - 1))
    ELSE s

NoTrim(s) == s

trim(s) == TrimEnd(TrimStart(s))

ContainsTrimmed(list, s) == \E i \in DOMAIN list : trim(list[i]) = s

ContainsFirst(list, s) == list # <<>> /\ list[1] = s

\* Vec<&str>::contains: equality of strings, element by element
contains(list, s) == \E i \in DOMAIN list : list[i] = s

(***************************************************************************)
(* The query grammar (query.pest), as sections 4.3 and 6 describe it:      *)
(*   WHITESPACE = _{ " " | NEWLINE }                                       *)
(*   tagsearch  = _{ SOI ~ expr ~ EOI }                                    *)
(*   expr       =  { atom ~ (bin_op ~ atom)* }                             *)
(*   atom       = _{ unary_not? ~ primary }                                *)
(*   primary    = _{ tag | "(" ~ expr ~ ")" }                              *)
(*   tag        =  "#" followed by one or more identifier characters       *)
(*   and = { "&" }   or = { "|" }   unary_not = { "!" }                    *)
(* A Pair is [rule, text, inner]; a parse step returns [ok, pos, pairs],   *)
(* pos being the index of the first character not consumed.                *)
(***************************************************************************)
Pair(rule, text, inner) == [rule |-> rule, text |-> text, inner |-> inner]

Fail(i) == [ok |-> FALSE, pos |-> i, pairs |-> <<>>]

Ok(i, pairs) == [ok |-> TRUE, pos |-> i, pairs |-> pairs]

RECURSIVE SkipWs(_, _)
SkipWs(s, i) ==
    IF i <= Len(s) /\ s[i] \in WHITESPACE THEN SkipWs(s, i + 1) ELSE i

RECURSIVE IdentEnd(_, _)
IdentEnd(s, i) ==
    IF i <= Len(s) /\ s[i] \in IdentChars THEN IdentEnd(s, i + 1) ELSE i

\* tag: "#" and an identifier.  The grammar file fixes whether the token's
\* text ends at the identifier or carries the whitespace that follows it;
\* capture is that choice.
ParseTag(s, i, capture) ==
    IF i <= Len(s) /\ s[i] = "#" /\ IdentEnd(s, i + 1) > i + 1
    THEN LET e == IdentEnd(s, i + 1)
             t == IF capture THEN SkipWs(s, e) ELSE e
         IN Ok(t, <<Pair("tag", SubSeq(s, i, t - 1), <<>>)>>)
    ELSE Fail(i)

ParseLit(s, i, c, rule) ==
    IF i <= Len(s) /\ s[i] = c
    THEN Ok(i + 1, <<Pair(rule, <<c>>, <<>>)>>)
    ELSE Fail(i)

ParseBinOp(s, i) ==
    IF ParseLit(s, i, "&", "and").ok THEN ParseLit(s, i, "&", "and")
    ELSE ParseLit(s, i, "|", "or")

RECURSIVE ParseExpr(_, _, _)
RECURSIVE ParsePrimary(_, _, _)
RECURSIVE ParseAtom(_, _, _)
RECURSIVE ParseRest(_, _, _, _)

ParsePrimary(s, i, capture) ==
    IF ParseTag(s, i, capture).ok THEN ParseTag(s, i, capture)
    ELSE IF i <= Len(s) /\ s[i] = "("
    THEN LET e == ParseExpr(s, SkipWs(s, i + 1), capture)
             j == SkipWs(s, e.pos)
         IN IF e.ok /\ j <= Len(s) /\ s[j] = ")"
            THEN Ok(j + 1, e.pairs)
            ELSE Fail(i)
    ELSE Fail(i)

ParseAtom(s, i, capture) ==
    LET n == ParseLit(s, i, "!", "unary_not")
    IN IF n.ok
       THEN LET p == ParsePrimary(s, SkipWs(s, n.pos), capture)
            IN IF p.ok THEN Ok(p.pos, n.pairs \o p.pairs) ELSE Fail(i)
       ELSE ParsePrimary(s, i, capture)

\* (bin_op ~ atom)*: an iteration that fails consumes nothing and ends the
\* repetition
ParseRest(s, i, capture, acc) ==
    LET o == ParseBinOp(s, SkipWs(s, i))
        a == ParseAtom(s, SkipWs(s, o.pos), capture)
    IN IF o.ok /\ a.ok
       THEN ParseRest(s, a.pos, capture, acc \o o.pairs \o a.pairs)
       ELSE Ok(i, acc)

ParseExpr(s, i, capture) ==
    LET a == ParseAtom(s, i, capture)
    IN IF a.ok
       THEN LET r == ParseRest(s, a.pos, capture, a.pairs)
            IN Ok(r.pos, <<Pair("expr", SubSeq(s, i, r.pos - 1), r.pairs)>>)
       ELSE Fail(i)

\* QueryParser::parse(Rule::tagsearch, s)
ParsePrefix(s, capture) ==
    LET e == ParseExpr(s, SkipWs(s, 1), capture)
    IN IF e.ok THEN Ok(SkipWs(s, e.pos), e.pairs) ELSE Fail(1)

tagsearch(s, capture) ==
    LET e == ParseExpr(s, SkipWs(s, 1), capture)
        j == SkipWs(s, e.pos)
    IN IF e.ok /\ j = Len(s) + 1 THEN Ok(j, e.pairs) ELSE Fail(1)

(***************************************************************************)
(* Expr and Op (parsers.rs:15-32).                                         *)
(***************************************************************************)
Bool(value) == [kind |-> "Bool", value |-> value]

UnaryNot(child) == [kind |-> "UnaryNot", child |-> child]

Operation(lhs, op, rhs) == [kind |-> "Operation", lhs |-> lhs, op |-> op, rhs |-> rhs]

Unreachable(what) == [kind |-> "unreachable", what |-> what]

(***************************************************************************)
(* PRATT_PARSER (parsers.rs:34-44): each .op() call opens a precedence     *)
(* level above the previous one; rules joined by | share the level.        *)
(***************************************************************************)
PrattSplitLevels ==
    << [rules |-> {"or"}, affix |-> "infix", assoc |-> "Left"],
       [rules |-> {"and"}, affix |-> "infix", assoc |-> "Left"],
       [rules |-> {"unary_not"}, affix |-> "prefix", assoc |-> "Left"] >>

PrattRightAssoc ==
    << [rules |-> {"and", "or"}, affix |-> "infix", assoc |-> "Right"],
       [rules |-> {"unary_not"}, affix |-> "prefix", assoc |-> "Left"] >>

PrattNotLoosest ==
    << [rules |-> {"unary_not"}, affix |-> "prefix", assoc |-> "Left"],
       [rules |-> {"and", "or"}, affix |-> "infix", assoc |-> "Left"] >>

PRATT_PARSER ==
    << [rules |-> {"and", "or"}, affix |-> "infix", assoc |-> "Left"],
       [rules |-> {"unary_not"}, affix |-> "prefix", assoc |-> "Left"] >>

IsOp(rule) == \E l \in DOMAIN PRATT_PARSER : rule \in PRATT_PARSER[l].rules

Level(rule) == CHOOSE l \in DOMAIN PRATT_PARSER : rule \in PRATT_PARSER[l].rules

Prec(rule) == 10 * (Level(rule) + 1)

Affix(rule) == PRATT_PARSER[Level(rule)].affix

Assoc(rule) == PRATT_PARSER[Level(rule)].assoc

(***************************************************************************)
(* construct_query_ast (parsers.rs:55-80): the three closures, and the     *)
(* precedence climbing that .parse(pairs) runs over them.  A step returns  *)
(* [expr, pos], pos being the index of the next pair.                      *)
(***************************************************************************)
RECURSIVE construct_query_ast(_, _)
RECURSIVE PrattExpr(_, _, _, _)
RECURSIVE PrattLoop(_, _, _, _, _)

\* map_primary
map_primary(primary, tagList) ==
    CASE primary.rule = "tag" -> Bool(contains(tagList, trim(primary.text)))
      [] primary.rule = "expr" -> construct_query_ast(primary.inner, tagList)
      [] OTHER -> Unreachable("Expected tag")

\* map_infix
map_infix(lhs, op, rhs) ==
    CASE op.rule = "or" -> Operation(lhs, "Or", rhs)
      [] op.rule = "and" -> Operation(lhs, "And", rhs)
      [] OTHER -> Unreachable("Expected operation")

\* map_prefix
PrefixDropped(op, rhs) == rhs

map_prefix(op, rhs) ==
    CASE op.rule = "unary_not" -> UnaryNot(rhs)
      [] OTHER -> Unreachable("Expected unary not")

\* nud: a prefix operator and its operand, or a primary
PrattNud(pairs, i, tagList) ==
    IF i > Len(pairs) THEN [expr |-> Unreachable("empty Pairs"), pos |-> i]
    ELSE IF IsOp(pairs[i].rule)
    THEN IF Affix(pairs[i].rule) = "prefix"
         THEN LET r == PrattExpr(pairs, i + 1, Prec(pairs[i].rule) - 1, tagList)
              IN [expr |-> map_prefix(pairs[i], r.expr), pos |-> r.pos]
         ELSE [expr |-> Unreachable("Expected prefix or primary"), pos |-> Len(pairs) + 1]
    ELSE [expr |-> map_primary(pairs[i], tagList), pos |-> i + 1]

\* lbp: the precedence of the next pair, 0 at the end of the pairs
PrattLbp(pairs, i) ==
    IF i > Len(pairs) THEN 0 ELSE Prec(pairs[i].rule)

\* while rbp < lbp(next): lhs = led(lhs)
PrattLoop(pairs, i, rbp, lhs, tagList) ==
    IF i <= Len(pairs) /\ ~IsOp(pairs[i].rule)
    THEN [expr |-> Unreachable("Expected operator"), pos |-> Len(pairs) + 1]
    ELSE IF rbp < PrattLbp(pairs, i)
    THEN IF Affix(pairs[i].rule) = "infix"
         THEN LET r == PrattExpr(pairs, i + 1,
                           IF Assoc(pairs[i].rule) = "Left"
                           THEN Prec(pairs[i].rule)
                           ELSE Prec(pairs[i].rule) - 1,
                           tagList)
              IN PrattLoop(pairs, r.pos, rbp, map_infix(lhs, pairs[i], r.expr), tagList)
         ELSE [expr |-> Unreachable("Expected postfix or infix"), pos |-> Len(pairs) + 1]
    ELSE [expr |-> lhs, pos |-> i]

PrattExpr(pairs, i, rbp, tagList) ==
    LET l == PrattNud(pairs, i, tagList)
    IN PrattLoop(pairs, l.pos, rbp, l.expr, tagList)

construct_query_ast(pairs, tagList) == PrattExpr(pairs, 1, 0, tagList).expr

(***************************************************************************)
(* evaluate_ast (parsers.rs:85-98).  EvalRun returns the value together    *)
(* with the number of evaluate_ast calls the evaluation makes.             *)
(***************************************************************************)
RECURSIVE EvalRun(_)
RECURSIVE EvalShortCircuit(_)

EvalShortCircuit(e) ==
    CASE e.kind = "Bool" -> [value |-> e.value, calls |-> 1]
      [] e.kind = "UnaryNot" ->
            LET r == EvalShortCircuit(e.child)
            IN [value |-> ~r.value, calls |-> r.calls + 1]
      [] e.kind = "Operation" ->
            LET left == EvalShortCircuit(e.lhs)
                right == EvalShortCircuit(e.rhs)
            IN IF e.op = "Or"
               THEN IF left.value
                    THEN [value |-> TRUE, calls |-> left.calls + 1]
                    ELSE [value |-> right.value, calls |-> left.calls + right.calls + 1]
               ELSE IF ~left.value
                    THEN [value |-> FALSE, calls |-> left.calls + 1]
                    ELSE [value |-> right.value, calls |-> left.calls + right.calls + 1]

EvalRun(e) ==
    CASE e.kind = "Bool" -> [value |-> e.value, calls |-> 1]
      [] e.kind = "UnaryNot" ->
            LET r == EvalRun(e.child)
            IN [value |-> ~r.value, calls |-> r.calls + 1]
      [] e.kind = "Operation" ->
            LET left == EvalRun(e.lhs)
                right == EvalRun(e.rhs)
            IN [value |-> IF e.op = "Or" THEN left.value \/ right.value
                          ELSE left.value /\ right.value,
                calls |-> left.calls + right.calls + 1]

evaluate_ast(e) == EvalRun(e).value

(***************************************************************************)
(* Inputs.  A query is a sequence of lexemes joined by a separator, so     *)
(* that whitespace only ever stands between lexemes.                       *)
(***************************************************************************)
TagA == <<"#", "a">>
TagB == <<"#", "b">>
TagC == <<"#", "c">>
TagD == <<"#", "d">>
AND == <<"&">>
OR == <<"|">>
NOT == <<"!">>
LP == <<"(">>
RP == <<")">>
HASH == <<"#">>

Seps == {<<>>, <<" ">>, <<"\n">>}

RECURSIVE ExprSeqs(_)
RECURSIVE AtomSeqs(_)
RECURSIVE PrimSeqs(_)

\* the well-formed queries of exactly n lexemes over the tags #a, #b
PrimSeqs(n) ==
    IF n = 1 THEN {<<TagA>>, <<TagB>>}
    ELSE IF n >= 3 THEN {<<LP>> \o e \o <<RP>> : e \in ExprSeqs(n - 2)}
    ELSE {}

AtomSeqs(n) ==
    PrimSeqs(n) \cup (IF n >= 2 THEN {<<NOT>> \o p : p \in PrimSeqs(n - 1)} ELSE {})

ExprSeqs(n) ==
    IF n < 1 THEN {}
    ELSE AtomSeqs(n) \cup
         UNION {{a \o <<o>> \o e : a \in AtomSeqs(k), o \in {AND, OR},
                                   e \in ExprSeqs(n - k - 1)} : k \in 1..(n - 2)}

WellFormed == UNION {ExprSeqs(n) : n \in 1..MaxToks}

\* every sequence of at most MaxRaw lexemes, well-formed or not
RawLexemes == {TagA, HASH, AND, OR, NOT, LP, RP}

RawSeqs == UNION {[1..n -> RawLexemes] : n \in 0..MaxRaw}

\* the queries of section 8 and of the tests of parsers.rs
LawChain == <<TagA, AND, TagB, OR, TagC>>
LawLeft == <<LP, TagA, AND, TagB, RP, OR, TagC>>
LawRight == <<TagA, AND, LP, TagB, OR, TagC, RP>>

NamedQueries ==
    { LawChain, LawLeft, LawRight,
      <<TagA, OR, TagB, AND, TagC>>,
      <<TagA, AND, TagB, OR, LP, NOT, TagC, AND, TagD, RP>>,
      <<TagA, AND, NOT, TagB>>,
      <<LP, TagA, OR, TagB, RP, AND, TagB, OR, TagC>>,
      <<TagC, OR, LP, NOT, TagA, RP, AND, LP, TagB, OR, TagA, RP>>,
      <<NOT, TagC>>,
      <<HASH, HASH>>,
      <<TagA, AND>>,
      <<TagA, AND, TagB, RP>>,
      <<LP, TagA, AND, TagB>> }

QueryInputs ==
    {Join(ls, sep) : ls \in WellFormed \cup RawSeqs \cup NamedQueries, sep \in Seps}

\* tag lists: every list of at most MaxTags of the tags #a, #b, #c (in any
\* order, with repeats), one list for every subset of them, and lists whose
\* entries differ from a query's tags by the hash, the case or surrounding
\* whitespace
TagNames == {TagA, TagB, TagC}

SubsetLists ==
    {SelectSeq(<<TagA, TagB, TagC>>, LAMBDA t : t \in S) : S \in SUBSET TagNames}

OddTagLists ==
    { << <<"a">> >>, << <<"#", "A">> >>, << <<"#", "a", " ">> >>,
      << <<" ", "#", "a">> >>, <<TagC, TagD>> }

TagLists ==
    UNION {[1..n -> TagNames] : n \in 0..MaxTags} \cup SubsetLists \cup OddTagLists

\* whether a tag token's text carries the whitespace that follows it
Captures == BOOLEAN

(***************************************************************************)
(* Placeholders for values not yet computed.                               *)
(***************************************************************************)
NoParse == [ok |-> FALSE, pos |-> 0, pairs |-> <<>>]
NoExpr == [kind |-> "none"]
NoVerdict == [value |-> FALSE, calls |-> 0]
NoArgs == [interactive |-> FALSE, silent |-> FALSE,
           filter_command |-> FALSE, command |-> FALSE]

NoExtract == [ok |-> FALSE, error |-> "none", tags |-> <<>>]
NoBuild == [source |-> "none", overflow_checks |-> FALSE]
NoTerminal == [raw_mode |-> FALSE, alternate_screen |-> FALSE]

NoInputs == [tab_index |-> 0, file_index |-> 0, scroll_index |-> 0,
             command_mode |-> FALSE, quit |-> FALSE]

TagIdle == line = <<>> /\ extracted = NoExtract

WalkIdle == walk = <<>> /\ walked = <<>> /\ tagged_files = <<>>

UiIdle ==
    /\ build = NoBuild
    /\ interactive_inputs = NoInputs
    /\ previous_inputs = NoInputs
    /\ event = "none"
    /\ command_key = "none"
    /\ terminal = NoTerminal

(***************************************************************************)
(* SpecQuery: the query engine on one query and one tag list, as the       *)
(* tests of parsers.rs and the body of main's loop run it:                 *)
(* QueryParser::parse, then construct_query_ast and evaluate_ast.          *)
(***************************************************************************)
InitQuery ==
    /\ pc = "q_start"
    /\ query \in QueryInputs
    /\ parsed = NoParse
    /\ tags = <<>>
    /\ ast = NoExpr
    /\ verdict = NoVerdict
    /\ args = NoArgs
    /\ file_index = <<>>
    /\ visited = <<>>
    /\ file_matched_index = <<>>
    /\ command_outputs = <<>>
    /\ stdout = <<>>
    /\ TagIdle /\ WalkIdle /\ UiIdle

QParse ==
    /\ pc = "q_start"
    /\ \E capture \in Captures : parsed' = tagsearch(query, capture)
    /\ pc' = IF parsed'.ok THEN "q_parsed" ELSE "q_error"
    /\ UNCHANGED <<query, tags, ast, verdict, args, file_index, visited,
                   file_matched_index, command_outputs, stdout,
                   tagVars, walkVars, uiVars>>

QMatch ==
    /\ pc = "q_parsed"
    /\ \E t \in TagLists :
          /\ tags' = t
          /\ ast' = construct_query_ast(parsed.pairs[1].inner, t)
    /\ verdict' = EvalRun(ast')
    /\ pc' = "q_done"
    /\ UNCHANGED <<query, parsed, args, file_index, visited,
                   file_matched_index, command_outputs, stdout,
                   tagVars, walkVars, uiVars>>

NextQuery == QParse \/ QMatch

SpecQuery == InitQuery /\ [][NextQuery]_vars

(***************************************************************************)
(* SpecEval: evaluate_ast on an arbitrary Expr, as test_evaluate_ast       *)
(* (parsers.rs:302-347) calls it.                                          *)
(***************************************************************************)
RECURSIVE Exprs(_)
Exprs(d) ==
    IF d = 0 THEN {Bool(TRUE), Bool(FALSE)}
    ELSE Exprs(d - 1)
         \cup {UnaryNot(e) : e \in Exprs(d - 1)}
         \cup {Operation(l, o, r) : l \in Exprs(d - 1), o \in {"And", "Or"},
                                    r \in Exprs(d - 1)}

InitEval ==
    /\ pc = "e_start"
    /\ ast \in Exprs(MaxDepth)
    /\ query = <<>>
    /\ parsed = NoParse
    /\ tags = <<>>
    /\ verdict = NoVerdict
    /\ args = NoArgs
    /\ file_index = <<>>
    /\ visited = <<>>
    /\ file_matched_index = <<>>
    /\ command_outputs = <<>>
    /\ stdout = <<>>
    /\ TagIdle /\ WalkIdle /\ UiIdle

Evaluate ==
    /\ pc = "e_start"
    /\ verdict' = EvalRun(ast)
    /\ pc' = "e_done"
    /\ UNCHANGED <<query, parsed, tags, ast, args, file_index, visited,
                   file_matched_index, command_outputs, stdout,
                   tagVars, walkVars, uiVars>>

NextEval == Evaluate

SpecEval == InitEval /\ [][NextEval]_vars

(***************************************************************************)
(* Spec: main (main.rs:431-503) from the point where the arguments are     *)
(* settled, the query string is fetched and get_tags_from_files has        *)
(* returned the file index.                                                *)
(***************************************************************************)
MainQueries == {Join(ls, <<" ">>) : ls \in NamedQueries}

ArgSets == [interactive : BOOLEAN, silent : BOOLEAN,
            filter_command : BOOLEAN, command : BOOLEAN]

FileTagLists == {<<>>, <<TagA>>, <<TagC, TagD>>}

\* a TaggedFile is [path, tags]; the path of the i-th file of the walk is i
FileIndexes ==
    UNION {{[i \in 1..n |-> [path |-> i, tags |-> f[i]]] : f \in [1..n -> FileTagLists]}
           : n \in 0..MaxFiles}

Init ==
    /\ pc = "main_parse"
    /\ query \in MainQueries
    /\ args \in ArgSets
    /\ file_index \in FileIndexes
    /\ parsed = NoParse
    /\ tags = <<>>
    /\ ast = NoExpr
    /\ verdict = NoVerdict
    /\ visited = <<>>
    /\ file_matched_index = <<>>
    /\ command_outputs = <<>>
    /\ stdout = <<>>
    /\ TagIdle /\ WalkIdle /\ UiIdle

ParseQueryNoExit ==
    /\ pc = "main_parse"
    /\ \E capture \in Captures : parsed' = tagsearch(query, capture)
    /\ pc' = "main_loop"
    /\ UNCHANGED <<query, tags, ast, verdict, args, file_index, visited,
                   file_matched_index, command_outputs, stdout,
                   tagVars, walkVars, uiVars>>

\* main.rs:432-444: parse the query; a parse error ends the process with
\* status 1
ParseQuery ==
    /\ pc = "main_parse"
    /\ \E capture \in Captures : parsed' = tagsearch(query, capture)
    /\ pc' = IF parsed'.ok THEN "main_loop" ELSE "exit_1"
    /\ UNCHANGED <<query, tags, ast, verdict, args, file_index, visited,
                   file_matched_index, command_outputs, stdout,
                   tagVars, walkVars, uiVars>>

\* Pairs is an iterator: next() yields its first pair and advances it
NoPair == Pair("none", <<>>, <<>>)

PairsNext(p) ==
    IF p.pairs = <<>> THEN [item |-> NoPair, iter |-> p]
    ELSE [item |-> Head(p.pairs), iter |-> [p EXCEPT !.pairs = Tail(@)]]

\* main.rs:456: query.clone().next(): the pair comes from a clone, and
\* query itself is left as it was
NextWithoutClone(q) == PairsNext(q)

query_clone_next(q) == [item |-> PairsNext(q).item, iter |-> q]

PushFront(vec, x) == <<x>> \o vec

\* Vec::push (main.rs:491-492)
push(vec, x) == Append(vec, x)

FilterAlways(matched, a) == a.filter_command

\* main.rs:461-471: the filter command runs when the tags match the query
\* and a filter command is given
filter_gate(matched, a) == matched /\ a.filter_command

\* main.rs:454-493: one iteration of the loop over file_index
ProcessFile ==
    /\ pc = "main_loop"
    /\ file_index # <<>>
    /\ \E file \in {Head(file_index)}, n \in {query_clone_next(parsed)} :
       \E a \in {construct_query_ast(n.item.inner, file.tags)} :
       \E v \in {EvalRun(a)} :
       \E runs_filter \in {filter_gate(v.value, args)} :
          \E filter_ok \in (IF runs_filter THEN BOOLEAN ELSE {TRUE}) :
             LET accepted == v.value /\ filter_ok
                 runs_command == accepted /\ args.command
                 output == IF runs_command THEN "output" ELSE ""
                 pushed == accepted /\ ~args.silent
             IN /\ parsed' = n.iter
                /\ tags' = file.tags
                /\ ast' = a
                /\ verdict' = v
                /\ stdout' = IF accepted /\ ~args.interactive
                             THEN Append(stdout, file.path) ELSE stdout
                /\ file_matched_index' = IF pushed THEN push(file_matched_index, file)
                                         ELSE file_matched_index
                /\ command_outputs' = IF pushed THEN push(command_outputs, output)
                                      ELSE command_outputs
                /\ visited' = Append(visited,
                                 [file |-> file, ast |-> a, verdict |-> v,
                                  filter_ran |-> runs_filter, filter_ok |-> filter_ok,
                                  command_ran |-> runs_command])
    /\ file_index' = Tail(file_index)
    /\ UNCHANGED <<pc, query, args, tagVars, walkVars, uiVars>>

\* main.rs:495-503: the loop is over
Finish ==
    /\ pc = "main_loop"
    /\ file_index = <<>>
    /\ pc' = "done"
    /\ UNCHANGED <<query, parsed, tags, ast, verdict, args, file_index, visited,
                   file_matched_index, command_outputs, stdout,
                   tagVars, walkVars, uiVars>>

Next == ParseQuery \/ ProcessFile \/ Finish

Spec == Init /\ [][Next]_vars

(***************************************************************************)
(* The tagline grammar (tagline.pest), as sections 4.1 and 6 describe it:  *)
(*   tagline = { SOI ~ "tags:" ~ "[" ~ tag* ~ "]" ~ EOI }                   *)
(* with optional whitespace between the tokens, and tag as in the query    *)
(* grammar.                                                                *)
(***************************************************************************)
Keyword == <<"t", "a", "g", "s", ":">>

StartsWith(s, i, w) ==
    i + Len(w) - 1 <= Len(s) /\ SubSeq(s, i, i + Len(w) - 1) = w

\* tag*: an iteration that fails consumes nothing and ends the repetition
RECURSIVE ParseTags(_, _, _, _)
ParseTags(s, i, capture, acc) ==
    LET t == ParseTag(s, i, capture)
    IN IF t.ok THEN ParseTags(s, SkipWs(s, t.pos), capture, acc \o t.pairs)
       ELSE Ok(i, acc)

\* a tagline without its brackets
TaglineNoBrackets(s, capture) ==
    IF StartsWith(s, 1, Keyword)
    THEN LET r == ParseTags(s, SkipWs(s, Len(Keyword) + 1), capture, <<>>)
         IN IF SkipWs(s, r.pos) = Len(s) + 1 THEN r ELSE Fail(1)
    ELSE Fail(1)

\* TaglineParser::parse(Rule::tagline, s)
tagline(s, capture) ==
    IF StartsWith(s, 1, Keyword)
    THEN LET i == SkipWs(s, Len(Keyword) + 1)
             r == ParseTags(s, SkipWs(s, i + 1), capture, <<>>)
         IN IF /\ i <= Len(s) /\ s[i] = "["
               /\ r.pos <= Len(s) /\ s[r.pos] = "]"
               /\ SkipWs(s, r.pos + 1) = Len(s) + 1
            THEN Ok(Len(s) + 1, r.pairs)
            ELSE Fail(1)
    ELSE Fail(1)

(***************************************************************************)
(* get_tags_from_file (search.rs:21-38).  A file is [readable, lines]; its *)
(* first line is lines[1], read with its line terminator.                  *)
(***************************************************************************)
IoErr == [ok |-> FALSE, error |-> "io", tags |-> <<>>]
ParseErr == [ok |-> FALSE, error |-> "parse", tags |-> <<>>]
Tags(list) == [ok |-> TRUE, error |-> "none", tags |-> list]

ReadLastLine(lines) == IF lines = <<>> THEN <<>> ELSE lines[Len(lines)]

\* BufRead::read_line: the first line, or the empty string at end of file
read_line(lines) == IF lines = <<>> THEN <<>> ELSE lines[1]

\* search.rs:31-35: the text of every pair whose rule is tag, as it is
PairTexts(pairs) ==
    LET ts == SelectSeq(pairs, LAMBDA p : p.rule = "tag")
    IN [i \in DOMAIN ts |-> ts[i].text]

get_tags_from_file(file, capture) ==
    IF ~file.readable THEN IoErr
    ELSE LET p == tagline(trim(read_line(file.lines)), capture)
         IN IF p.ok THEN Tags(PairTexts(p.pairs)) ELSE ParseErr

(***************************************************************************)
(* SpecTagline: get_tags_from_file on one readable file, first line drawn  *)
(* from arbitrary lexeme sequences, from the inputs of test_tagline_parser *)
(* and from formatted tag lists.                                           *)
(***************************************************************************)
Tag1 == <<"#", "1">>
Tag2 == <<"#", "2">>
Tag3 == <<"#", "3">>
TagLong == <<"#", "a", "b", "c", "d">>
TagHyphen == <<"#", "a", "-", "b">>
LB == <<"[">>
RB == <<"]">>
SP == <<" ">>
NL == <<"\n">>

LineLexemes == {Keyword, LB, RB, TagA, Tag1, HASH, SP, <<"a">>}

RawLines == {Concat(ls) : ls \in UNION {[1..n -> LineLexemes] : n \in 0..MaxLine}}

\* parsers.rs:123-154, with identifiers of the model's alphabet
TestLines ==
    { Concat(<<Keyword, SP, LB, Tag1, SP, Tag2, SP, Tag3, RB>>),
      Concat(<<Keyword, LB, Tag1, TagLong, TagHyphen, RB>>),
      Concat(<<Keyword, Tag1, Tag2, Tag3>>),
      Concat(<<LB, Tag1, Tag2, Tag3, RB>>),
      Concat(<<Keyword, LB, HASH, HASH, RB>>),
      Concat(<<Keyword, LB, RB>>) }

RoundTags == {TagA, Tag1, TagHyphen}

RoundLists == UNION {[1..n -> RoundTags] : n \in 0..MaxList}

\* `tags: [#t1 #t2 ...]`
Format(list) == Keyword \o SP \o LB \o Join(list, SP) \o RB

FormattedLines == {Format(l) : l \in RoundLists}

LineEnds == {<<>>, NL}

FirstLines ==
    {l \o e : l \in RawLines \cup TestLines \cup FormattedLines, e \in LineEnds}

InitTagline ==
    /\ pc = "t_start"
    /\ line \in FirstLines
    /\ extracted = NoExtract
    /\ query = <<>>
    /\ parsed = NoParse
    /\ tags = <<>>
    /\ ast = NoExpr
    /\ verdict = NoVerdict
    /\ args = NoArgs
    /\ file_index = <<>>
    /\ visited = <<>>
    /\ file_matched_index = <<>>
    /\ command_outputs = <<>>
    /\ stdout = <<>>
    /\ WalkIdle /\ UiIdle

Extract ==
    /\ pc = "t_start"
    /\ \E capture \in Captures :
          extracted' = get_tags_from_file([readable |-> TRUE, lines |-> <<line>>], capture)
    /\ pc' = "t_done"
    /\ UNCHANGED <<line, engineVars, walkVars, uiVars>>

NextTagline == Extract

SpecTagline == InitTagline /\ [][NextTagline]_vars

(***************************************************************************)
(* SpecIndex: get_tags_from_files (search.rs:42-63).  WalkDir yields the   *)
(* root first and then the entries below it; an item is a directory, a     *)
(* file [readable, lines] or a walkdir::Error (an entry that cannot be     *)
(* read: missing root, unreadable directory, dangling link).  The path of  *)
(* an item is its position in the walk.                                    *)
(***************************************************************************)
DirItem == [kind |-> "dir"]
ErrItem == [kind |-> "err"]
FileItem(readable, lines) == [kind |-> "file", readable |-> readable, lines |-> lines]

WalkFirstLines ==
    { Concat(<<Keyword, LB, TagA, RB, NL>>),
      Concat(<<SP, Keyword, SP, LB, RB, SP>>),
      Concat(<<Keyword, LB, HASH, HASH, RB, NL>>),
      Concat(<<TagA, NL>>) }

LaterLines == {<<>>, <<Concat(<<Keyword, LB, TagC, RB, NL>>)>>}

FileContents == {<<>>} \cup {<<f>> \o r : f \in WalkFirstLines, r \in LaterLines}

WalkItems ==
    {DirItem, ErrItem} \cup {FileItem(FALSE, <<>>)}
       \cup {FileItem(TRUE, c) : c \in FileContents}

\* the root alone when it is no directory, else the root and what is below
Walks ==
    {<<i>> : i \in WalkItems}
       \cup UNION {{<<DirItem>> \o w : w \in [1..n -> WalkItems]} : n \in 0..MaxWalk}

InitIndex ==
    /\ pc = "w_loop"
    /\ walk \in Walks
    /\ walked = <<>>
    /\ tagged_files = <<>>
    /\ query = <<>>
    /\ parsed = NoParse
    /\ tags = <<>>
    /\ ast = NoExpr
    /\ verdict = NoVerdict
    /\ args = NoArgs
    /\ file_index = <<>>
    /\ visited = <<>>
    /\ file_matched_index = <<>>
    /\ command_outputs = <<>>
    /\ stdout = <<>>
    /\ TagIdle /\ UiIdle

\* search.rs:45-60: one iteration of the loop over the walk
WalkEntry ==
    /\ pc = "w_loop"
    /\ walk # <<>>
    /\ LET entry == Head(walk)
           path == Len(walked) + 1
       IN /\ walked' = Append(walked, entry)
          /\ walk' = Tail(walk)
          /\ IF entry.kind = "err"
             THEN pc' = "w_err" /\ UNCHANGED tagged_files
             ELSE IF entry.kind = "dir"
             THEN UNCHANGED <<pc, tagged_files>>
             ELSE \E capture \in Captures :
                     LET t == get_tags_from_file(entry, capture)
                     IN /\ tagged_files' =
                              IF t.ok
                              THEN Append(tagged_files, [path |-> path, tags |-> t.tags])
                              ELSE tagged_files
                        /\ UNCHANGED pc
    /\ UNCHANGED <<engineVars, tagVars, uiVars>>

\* search.rs:62: the walk is over, Ok(tagged_files.clone())
WalkEnd ==
    /\ pc = "w_loop"
    /\ walk = <<>>
    /\ pc' = "w_ok"
    /\ UNCHANGED <<walk, walked, tagged_files, engineVars, tagVars, uiVars>>

NextIndex == WalkEntry \/ WalkEnd

SpecIndex == InitIndex /\ [][NextIndex]_vars

(***************************************************************************)
(* Machine integers of the inspect loop.  tab_index and file_index are     *)
(* usize, scroll_index is u16.  A usize is kept as its value when that is  *)
(* small and as USIZE_MAX when all its bits are set; the remainder of      *)
(* usize::MAX = 2^UsizeBits - 1 is computed from the powers of two.        *)
(***************************************************************************)
UsizeBits == 64

U16_MAX == 65535

USIZE_MAX == -1

RECURSIVE Pow2Mod(_, _)
Pow2Mod(k, n) == IF k = 0 THEN 1 % n ELSE (2 * Pow2Mod(k - 1, n)) % n

\* x % n for a usize x and n > 0
UsizeRem(x, n) ==
    IF x = USIZE_MAX THEN (Pow2Mod(UsizeBits, n) + n - 1) % n ELSE x % n

(***************************************************************************)
(* The inspect loop: interactive_output of main.rs:156-188 (the one main   *)
(* calls) and its copy in inspect.rs:33-71.  build.source says which of    *)
(* the two runs, build.overflow_checks whether the build panics on integer *)
(* overflow (debug) or wraps (release).                                    *)
(***************************************************************************)
Events == {"none", "n", "p", "l", "h", "k", "j", "c", "q", "other"}

CmdKeys == {"Esc", "Enter", "other"}

Step(panic, inputs) == [panic |-> panic, inputs |-> inputs]

\* command_mode (main.rs:227-258) and command_mode_input (inspect.rs:275-297):
\* the value command_mode takes after the key read
command_mode_key(source, cmd) ==
    IF cmd = "Enter" THEN FALSE
    ELSE IF cmd = "Esc" THEN source = "main.rs"
    ELSE TRUE

\* number of lines of the content of a tab
ContentLines(file, command_output, tab_index) ==
    IF tab_index = 0 THEN 1
    ELSE IF tab_index = 1 THEN (IF command_output = "" THEN 0 ELSE 1)
    ELSE Len(file.tags)

\* render_tab_content (main.rs:260-297, inspect.rs:114-155)
render_tab_content(source, file, command_output, tab_index) ==
    IF tab_index \notin {0, 1, 2} THEN "unreachable"
    ELSE IF source = "main.rs" /\ ContentLines(file, command_output, tab_index) = 0
    THEN "rem_zero"
    ELSE "none"

\* interactive_output_ui (main.rs:190-215, inspect.rs:74-100)
interactive_output_ui(source, file, command_output, inp, cmd) ==
    IF source = "main.rs"
    THEN IF inp.command_mode
         THEN Step("none", [inp EXCEPT !.command_mode = command_mode_key(source, cmd)])
         ELSE Step(render_tab_content(source, file, command_output, inp.tab_index), inp)
    ELSE LET r == render_tab_content(source, file, command_output, inp.tab_index)
         IN IF r = "none" /\ inp.command_mode
            THEN Step("none", [inp EXCEPT !.command_mode = command_mode_key(source, cmd)])
            ELSE Step(r, inp)

\* 'h': main.rs:372-374 subtracts, inspect.rs:232-238 tests for 0 first
previous_tab(b, tab_index) ==
    IF b.source = "inspect.rs"
    THEN (IF tab_index # 0 THEN Step("none", tab_index - 1) ELSE Step("none", 2))
    ELSE IF tab_index # 0 THEN Step("none", tab_index - 1)
    ELSE IF b.overflow_checks THEN Step("overflow", tab_index)
    ELSE Step("none", USIZE_MAX)

\* 'p': main.rs:362-368, inspect.rs:222-228
previous_file(index) == IF index = 0 THEN USIZE_MAX ELSE index - 1

\* handle_events (main.rs:345-397, inspect.rs:205-261) on the event read:
\* "none" is a poll that timed out or an event that is no key press
handle_events(b, prev, key) ==
    LET inp == [prev EXCEPT !.quit = FALSE]
    IN IF key = "n" THEN Step("none", [inp EXCEPT !.file_index = @ + 1])
       ELSE IF key = "p"
       THEN Step("none", [inp EXCEPT !.file_index = previous_file(@)])
       ELSE IF key = "l" THEN Step("none", [inp EXCEPT !.tab_index = @ + 1])
       ELSE IF key = "h"
       THEN LET t == previous_tab(b, inp.tab_index)
            IN Step(t.panic, [inp EXCEPT !.tab_index = t.inputs])
       ELSE IF key = "k"
       THEN Step("none", [inp EXCEPT !.scroll_index = IF @ = 0 THEN U16_MAX ELSE @ - 1])
       ELSE IF key = "j"
       THEN Step("none", [inp EXCEPT !.scroll_index = IF @ = U16_MAX THEN 0 ELSE @ + 1])
       ELSE IF key = "c" THEN Step("none", [inp EXCEPT !.command_mode = TRUE])
       ELSE IF key = "q" THEN Step("none", [inp EXCEPT !.quit = TRUE])
       ELSE Step("none", inp)

(***************************************************************************)
(* SpecInspect: main with --interactive, from enable_raw_mode to the end   *)
(* of the process (main.rs:446-501).  The lists are those the per-file     *)
(* loop can leave: one output per file pushed, and nothing pushed in       *)
(* silent mode (main.rs:483-485),                                          *)
(* which main forces when stdout is no terminal (main.rs:404-407).         *)
(***************************************************************************)
InspectTagLists == {<<>>, <<TagA>>}

\* files that differ by their path: all without a tag, or all with one
InspectFiles ==
    {[i \in 1..n |-> [path |-> i, tags |-> t]] : n \in 0..MaxInspect, t \in InspectTagLists}

\* the outputs of `--command`, one per file, or the empty strings pushed
\* without it (main.rs:476-480)
Outputs(n, command) == [i \in 1..n |-> IF command THEN "output" ELSE ""]

Builds == [source : {"main.rs", "inspect.rs"}, overflow_checks : BOOLEAN]

InitInspect ==
    /\ pc = "i_start"
    /\ terminal = NoTerminal
    /\ command_key = "none"
    /\ args \in {a \in ArgSets : a.interactive /\ ~a.filter_command}
    /\ file_matched_index \in (IF args.silent THEN {<<>>} ELSE InspectFiles)
    /\ command_outputs = Outputs(Len(file_matched_index), args.command)
    /\ build \in Builds
    /\ interactive_inputs = NoInputs
    /\ previous_inputs = NoInputs
    /\ event = "none"
    /\ query = <<>>
    /\ parsed = NoParse
    /\ tags = <<>>
    /\ ast = NoExpr
    /\ verdict = NoVerdict
    /\ file_index = <<>>
    /\ visited = <<>>
    /\ stdout = <<>>
    /\ TagIdle /\ WalkIdle

\* outcomes of a call that returns io::Result
IoResults == {"ok", "err"}

\* main.rs:446-449: enable_raw_mode()?; stdout().execute(EnterAlternateScreen)?;
\* an Err of either leaves main at once
EnableRawMode ==
    /\ pc = "i_start"
    /\ \E raw \in IoResults, screen \in IoResults :
          IF raw = "err"
          THEN pc' = "i_err" /\ UNCHANGED terminal
          ELSE IF screen = "err"
          THEN pc' = "i_err" /\ terminal' = [terminal EXCEPT !.raw_mode = TRUE]
          ELSE pc' = "i_files" /\ terminal' = [raw_mode |-> TRUE, alternate_screen |-> TRUE]
    /\ UNCHANGED <<build, interactive_inputs, previous_inputs, event, command_key,
                   engineVars, tagVars, walkVars>>

\* main.rs:454-493 with the terminal in raw mode: the loop fills
\* file_matched_index and command_outputs, and execute_command_on_file
\* (main.rs:81, main.rs:93; commands.rs:24, commands.rs:36) panics when the
\* command of an accepted file cannot be run or its output is not UTF-8
FileLoop ==
    /\ pc = "i_files"
    /\ \E failed \in (IF args.command /\ (args.silent \/ file_matched_index # <<>>)
                       THEN BOOLEAN ELSE {FALSE}) :
          pc' = (IF failed THEN "panic_command" ELSE "i_call")
    /\ UNCHANGED <<engineVars, tagVars, walkVars, uiVars>>

\* main.rs:495-496 and main.rs:157, inspect.rs:34: interactive_output is
\* entered; Terminal::new(..)? may return the Err
CallInteractive ==
    /\ pc = "i_call"
    /\ \E new \in IoResults : pc' = (IF new = "ok" THEN "i_loop" ELSE "i_err")
    /\ interactive_inputs' = NoInputs
    /\ UNCHANGED <<build, previous_inputs, event, command_key, terminal,
                   engineVars, tagVars, walkVars>>

\* main.rs:178-179, inspect.rs:61-62: the Err of terminal.draw(..)? and of
\* handle_events(..)?, in place of a key event
IoErrors == {"draw_error", "read_error"}

\* the panics of command mode: the Err of crossterm::event::read()? unwrapped
\* (main.rs:198, inspect.rs:97), Enter on a command that cannot be run
\* (main.rs:241, inspect.rs:283)
CmdPanics == {"read_error", "command_error"}

\* scroll_index stays within MaxScroll of the two ends of u16
ScrollBounded(x) == x <= MaxScroll \/ x >= U16_MAX - MaxScroll

\* main.rs:166-185, inspect.rs:48-68: one iteration of the loop
Iterate ==
    /\ pc = "i_loop"
    /\ ~interactive_inputs.quit
    /\ previous_inputs' = interactive_inputs
    /\ LET inp == interactive_inputs
           n == Len(file_matched_index)
       IN IF inp.file_index >= n \/ inp.file_index >= Len(command_outputs)
          THEN /\ pc' = "panic_index"
               /\ event' = "none"
               /\ command_key' = "none"
               /\ UNCHANGED interactive_inputs
          ELSE \E cmd \in (IF inp.command_mode THEN CmdKeys \cup CmdPanics
                                               ELSE {"none"}),
                  key \in Events \cup IoErrors :
                  LET file == file_matched_index[inp.file_index + 1]
                      command_output == command_outputs[inp.file_index + 1]
                      drawn == interactive_output_ui(build.source, file, command_output,
                                                     inp, cmd)
                      handled == handle_events(build, drawn.inputs, key)
                  IN /\ event' = key
                     /\ command_key' = cmd
                     /\ IF drawn.panic # "none"
                        THEN /\ pc' = "panic_" \o drawn.panic
                             /\ UNCHANGED interactive_inputs
                        ELSE IF cmd \in CmdPanics
                        THEN /\ pc' = (IF cmd = "read_error" THEN "panic_unwrap"
                                                             ELSE "panic_command")
                             /\ UNCHANGED interactive_inputs
                        ELSE IF key \in IoErrors
                        THEN /\ pc' = "i_err"
                             /\ UNCHANGED interactive_inputs
                        ELSE IF handled.panic # "none"
                        THEN /\ pc' = "panic_" \o handled.panic
                             /\ UNCHANGED interactive_inputs
                        ELSE /\ ScrollBounded(handled.inputs.scroll_index)
                             /\ interactive_inputs' =
                                   [handled.inputs EXCEPT
                                       !.tab_index = UsizeRem(@, 3),
                                       !.file_index = UsizeRem(@, n)]
                             /\ UNCHANGED pc
    /\ UNCHANGED <<build, terminal, engineVars, tagVars, walkVars>>

\* main.rs:187, inspect.rs:70: quit ends the loop, Ok(())
Return ==
    /\ pc = "i_loop"
    /\ interactive_inputs.quit
    /\ pc' = "i_returned"
    /\ UNCHANGED <<engineVars, tagVars, walkVars, uiVars>>

\* main.rs:498-501: disable_raw_mode()?; stdout().execute(LeaveAlternateScreen)?;
\* Ok(()); an Err of either leaves main at once
Restore ==
    /\ pc = "i_returned"
    /\ \E raw \in IoResults, screen \in IoResults :
          IF raw = "err"
          THEN pc' = "i_err" /\ UNCHANGED terminal
          ELSE IF screen = "err"
          THEN pc' = "i_err" /\ terminal' = [terminal EXCEPT !.raw_mode = FALSE]
          ELSE pc' = "i_exit" /\ terminal' = [raw_mode |-> FALSE, alternate_screen |-> FALSE]
    /\ UNCHANGED <<build, interactive_inputs, previous_inputs, event, command_key,
                   engineVars, tagVars, walkVars>>

NextInspect ==
    \/ EnableRawMode
    \/ FileLoop
    \/ CallInteractive
    \/ Iterate
    \/ Return
    \/ Restore

SpecInspect == InitInspect /\ [][NextInspect]_vars

(***************************************************************************)
(* Properties.                                                             *)
(***************************************************************************)
IsWs(c) == c \in WHITESPACE

\* the query with the whitespace between its lexemes removed
Strip(s) == SelectSeq(s, LAMBDA c : ~IsWs(c))

Spaced(ls) == Join(ls, <<" ">>)

Has(tagList, name) == \E i \in DOMAIN tagList : tagList[i] = name

Inner == parsed.pairs[1].inner

IsPrimary(p) == p.rule \in {"tag", "expr"}

IsInfix(p) == p.rule \in {"and", "or"}

OpOf(p) == IF p.rule = "and" THEN "And" ELSE "Or"

\* C1: & and | share one precedence level and a chain of them groups
\* strictly left to right: the query p1 o1 p2 o2 p3 resolves to
\* Operation{Operation{p1, o1, p2}, o2, p3} for all primaries and operators;
\* `#a & #b | #c` is (a & b) | c and `#a | #b & #c` is (a | b) & c.
C1_LeftToRight ==
    pc = "q_done" =>
       /\ ( /\ Len(Inner) = 5
            /\ IsPrimary(Inner[1]) /\ IsInfix(Inner[2]) /\ IsPrimary(Inner[3])
            /\ IsInfix(Inner[4]) /\ IsPrimary(Inner[5]) )
          => ast = Operation(Operation(map_primary(Inner[1], tags), OpOf(Inner[2]),
                                       map_primary(Inner[3], tags)),
                             OpOf(Inner[4]), map_primary(Inner[5], tags))
       /\ Strip(query) = Concat(<<TagA, AND, TagB, OR, TagC>>)
          => ast = Operation(Operation(Bool(Has(tags, TagA)), "And", Bool(Has(tags, TagB))),
                             "Or", Bool(Has(tags, TagC)))
       /\ Strip(query) = Concat(<<TagA, OR, TagB, AND, TagC>>)
          => ast = Operation(Operation(Bool(Has(tags, TagA)), "Or", Bool(Has(tags, TagB))),
                             "And", Bool(Has(tags, TagC)))

\* `#a | #b & #c` on the tags [#a]: (a | b) & c is false, where a | (b & c)
\* would be true
C1_Witness ==
    /\ pc = "q_done"
    /\ query = Spaced(<<TagA, OR, TagB, AND, TagC>>)
    /\ tags = <<TagA>>
    /\ verdict.value = FALSE

\* C2: for every tag list, `#a & #b | #c` resolves and evaluates as
\* `(#a & #b) | #c` does: both are (a & b) | c over the same tag list, the
\* parenthesized sub-expression being resolved as a unit.
C2_GroupingLaw ==
    (pc = "q_done" /\ Strip(query) \in {Concat(LawChain), Concat(LawLeft)}) =>
       /\ verdict.value = ((Has(tags, TagA) /\ Has(tags, TagB)) \/ Has(tags, TagC))
       /\ verdict.value =
             evaluate_ast(construct_query_ast(
                 tagsearch(Spaced(LawLeft), FALSE).pairs[1].inner, tags))
       /\ ast = Operation(Operation(Bool(Has(tags, TagA)), "And", Bool(Has(tags, TagB))),
                          "Or", Bool(Has(tags, TagC)))

\* on the tags [#c] the chain is true and `#a & (#b | #c)` is false
C2_Witness ==
    /\ pc = "q_done"
    /\ query = Spaced(LawChain)
    /\ tags = <<TagC>>
    /\ verdict.value = TRUE
    /\ evaluate_ast(construct_query_ast(
           tagsearch(Spaced(LawRight), FALSE).pairs[1].inner, tags)) = FALSE

\* C3: the prefix ! binds tighter than & and |: `!p op q` resolves to
\* Operation{UnaryNot(p), op, q} and `p op !q` to Operation{p, op, UnaryNot(q)}.
C3_NotBindsTighter ==
    pc = "q_done" =>
       /\ ( /\ Len(Inner) = 4
            /\ Inner[1].rule = "unary_not" /\ IsPrimary(Inner[2])
            /\ IsInfix(Inner[3]) /\ IsPrimary(Inner[4]) )
          => ast = Operation(UnaryNot(map_primary(Inner[2], tags)), OpOf(Inner[3]),
                             map_primary(Inner[4], tags))
       /\ ( /\ Len(Inner) = 4
            /\ IsPrimary(Inner[1]) /\ IsInfix(Inner[2])
            /\ Inner[3].rule = "unary_not" /\ IsPrimary(Inner[4]) )
          => ast = Operation(map_primary(Inner[1], tags), OpOf(Inner[2]),
                             UnaryNot(map_primary(Inner[4], tags)))

\* `!#a | #b` on the tags [#a, #b]: (!a) | b is true, !(a | b) would be false
C3_Witness ==
    /\ pc = "q_done"
    /\ query = Spaced(<<NOT, TagA, OR, TagB>>)
    /\ tags = <<TagA, TagB>>
    /\ ast = Operation(UnaryNot(Bool(TRUE)), "Or", Bool(TRUE))
    /\ verdict.value = TRUE

\* the text of a tag token without the whitespace it may carry
TokenName(p) == Strip(p.text)

\* C4 as stated: the query `#a` evaluates to S.contains("a").
C4_Original ==
    (pc = "q_done" /\ Strip(query) = TagA) => verdict.value = Has(tags, <<"a">>)

\* C4: the query `#a` evaluates to S.contains("#a"): a tag-reference leaf
\* resolves to Bool(true) exactly when the tag list holds a string equal,
\* character for character, to the token with its hash, trimmed, and to
\* Bool(false) otherwise; the entries of the tag list are compared as they are.
C4_TagMembership ==
    pc = "q_done" =>
       /\ Strip(query) = TagA
          => (ast = Bool(Has(tags, TagA)) /\ verdict.value = Has(tags, TagA))
       /\ (Len(Inner) = 1 /\ Inner[1].rule = "tag")
          => ast = Bool(Has(tags, TokenName(Inner[1])))
       /\ ( /\ Len(Inner) = 3 /\ Inner[1].rule = "tag" /\ IsInfix(Inner[2])
            /\ Inner[3].rule = "tag" )
          => ast = Operation(Bool(Has(tags, TokenName(Inner[1]))), OpOf(Inner[2]),
                             Bool(Has(tags, TokenName(Inner[3]))))

\* `#a` is true on the tags [#b, #a]
C4_Witness ==
    /\ pc = "q_done"
    /\ query = TagA
    /\ tags = <<TagB, TagA>>
    /\ ast = Bool(TRUE)
    /\ verdict.value = TRUE

\* C5 as stated: the query `!#a` evaluates to !S.contains("a").
C5_Original ==
    (pc = "q_done" /\ Strip(query) = NOT \o TagA) => verdict.value = ~Has(tags, <<"a">>)

\* C5: the query `!#a` evaluates to !S.contains("#a"); the query `!#c` on
\* the tags [#c] is false.
C5_Negation ==
    pc = "q_done" =>
       /\ Strip(query) = NOT \o TagA
          => (ast = UnaryNot(Bool(Has(tags, TagA))) /\ verdict.value = ~Has(tags, TagA))
       /\ (Strip(query) = NOT \o TagC /\ tags = <<TagC>>) => verdict.value = FALSE
       /\ (Len(Inner) = 2 /\ Inner[1].rule = "unary_not" /\ Inner[2].rule = "tag")
          => verdict.value = ~Has(tags, TokenName(Inner[2]))

C5_Witness ==
    /\ pc = "q_done"
    /\ query = NOT \o TagC
    /\ tags = <<TagC>>
    /\ ast = UnaryNot(Bool(TRUE))
    /\ verdict.value = FALSE

\* the value an Expr denotes, and the number of its nodes
RECURSIVE Denote(_)
Denote(e) ==
    IF e.kind = "Bool" THEN e.value
    ELSE IF e.kind = "UnaryNot" THEN ~Denote(e.child)
    ELSE IF e.op = "And" THEN Denote(e.lhs) /\ Denote(e.rhs)
    ELSE Denote(e.lhs) \/ Denote(e.rhs)

RECURSIVE Size(_)
Size(e) ==
    IF e.kind = "Bool" THEN 1
    ELSE IF e.kind = "UnaryNot" THEN 1 + Size(e.child)
    ELSE 1 + Size(e.lhs) + Size(e.rhs)

\* C6: evaluate_ast is total on every Expr: it returns a boolean, v for
\* Bool(v), the negation for UnaryNot, the conjunction for And and the
\* disjunction for Or, and it evaluates both operands of every Operation
\* (one call per node of the tree), whatever the left operand's value.
C6_EvaluateTotal ==
    pc = "e_done" =>
       /\ verdict.value \in BOOLEAN
       /\ verdict.value = Denote(ast)
       /\ verdict.calls = Size(ast)

\* false & !false: the right operand is evaluated although the left is false
C6_Witness ==
    /\ pc = "e_done"
    /\ ast = Operation(Bool(FALSE), "And", UnaryNot(Bool(FALSE)))
    /\ verdict = [value |-> FALSE, calls |-> 4]

\* C7: resolution is idempotent and the parsed query is read-only: while
\* main walks the file index the parsed query stays the parse of the query
\* string, and any two files with equal tag lists get structurally equal
\* Exprs (each the Expr of that parse and those tags), whichever files were
\* resolved in between.
C7_ResolveIdempotent ==
    pc \in {"main_loop", "done"} =>
       /\ \E capture \in Captures : parsed = tagsearch(query, capture)
       /\ \A i \in DOMAIN visited : \A j \in DOMAIN visited :
             visited[i].file.tags = visited[j].file.tags
                => visited[i].ast = visited[j].ast
       /\ \A i \in DOMAIN visited :
             visited[i].ast = construct_query_ast(Inner, visited[i].file.tags)

\* the first and the third file carry the same tags, the second does not,
\* and its Expr differs
C7_Witness ==
    /\ pc = "done"
    /\ Len(visited) = 3
    /\ visited[1].file.tags = visited[3].file.tags
    /\ visited[1].file.tags # visited[2].file.tags
    /\ visited[1].ast = visited[3].ast
    /\ visited[1].ast # visited[2].ast
    /\ visited[1].ast.kind = "Operation"

Range(f) == {f[i] : i \in DOMAIN f}

RECURSIVE Reverse(_)
Reverse(f) == IF f = <<>> THEN <<>> ELSE Append(Reverse(Tail(f)), Head(f))

RECURSIVE Dedup(_)
Dedup(f) ==
    IF f = <<>> THEN <<>>
    ELSE LET d == Dedup(SubSeq(f, 1, Len(f) - 1))
         IN IF f[Len(f)] \in Range(d) THEN d ELSE Append(d, f[Len(f)])

\* C8: matching reads the tag list as a set: every tag list of the same
\* strings (in another order, or with entries repeated or repeats dropped)
\* gives the same Expr and the same verdict.
C8_SetSemantics ==
    pc = "q_done" =>
       \A other \in {Reverse(Dedup(tags)), tags \o Reverse(tags)} :
          /\ Range(other) = Range(tags)
          /\ LET a == construct_query_ast(Inner, other)
             IN a = ast /\ evaluate_ast(a) = verdict.value

\* `#a & #b` on [#b, #a] and on [#a, #a]: the first list is out of order
\* and matches, the second repeats an entry and does not
C8_Witness ==
    /\ pc = "q_done"
    /\ query = Spaced(<<TagA, AND, TagB>>)
    /\ \/ tags = <<TagB, TagA>> /\ verdict.value = TRUE
       \/ tags = <<TagA, TagA>> /\ verdict.value = FALSE

Count(s, c) == Len(SelectSeq(s, LAMBDA x : x = c))

LastOf(s) == s[Len(s)]

\* a hash that no identifier character follows
BareHash(s) ==
    \E i \in DOMAIN s : s[i] = "#" /\ (i = Len(s) \/ s[i + 1] \notin IdentChars)

\* C9: the grammar accepts only one expression spanning the whole input: a
\* successful parse has consumed every character and yields one expr pair;
\* a query with unbalanced parentheses, with an infix operator at its end or
\* at its start, or with a hash that no identifier follows is a parse error,
\* as are `(#a & #b`, `#a & #b)`, `#a &` and `##`.
C9_WholeInput ==
    pc \in {"q_parsed", "q_error"} =>
       /\ parsed.ok => (parsed.pos = Len(query) + 1 /\ Len(parsed.pairs) = 1
                        /\ parsed.pairs[1].rule = "expr" /\ pc = "q_parsed")
       /\ ~parsed.ok => pc = "q_error"
       /\ LET q == Strip(query)
          IN ( \/ q = <<>>
               \/ Count(q, "(") # Count(q, ")")
               \/ (q # <<>> /\ LastOf(q) \in {"&", "|", "!", "("})
               \/ (q # <<>> /\ Head(q) \in {"&", "|", ")"})
               \/ BareHash(query)
               \/ q \in { Concat(<<LP, TagA, AND, TagB>>), Concat(<<TagA, AND, TagB, RP>>),
                          Concat(<<TagA, AND>>), Concat(<<HASH, HASH>>) } )
             => ~parsed.ok

\* `#a & #b)` is rejected although its prefix `#a & #b` is a query
C9_Witness ==
    /\ pc = "q_error"
    /\ query = Spaced(<<TagA, AND, TagB, RP>>)
    /\ ~parsed.ok
    /\ tagsearch(Spaced(<<TagA, AND, TagB>>), FALSE).ok

\* C10: whitespace and newlines between the tokens of a query are
\* insignificant: the query parses exactly when the query without them
\* does, and it then resolves to the same Expr and evaluates to the same
\* verdict, for every tag list.
C10_WhitespaceInsignificant ==
    /\ pc \in {"q_parsed", "q_error"} => parsed.ok = tagsearch(Strip(query), FALSE).ok
    /\ pc = "q_done" =>
          LET bare == construct_query_ast(tagsearch(Strip(query), FALSE).pairs[1].inner, tags)
          IN /\ ast = bare
             /\ verdict.value = evaluate_ast(bare)

\* `#a`, newline, `&`, newline, `#b` on the tags [#a, #b]
C10_Witness ==
    /\ pc = "q_done"
    /\ query = <<"#", "a", "\n", "&", "\n", "#", "b">>
    /\ tags = <<TagA, TagB>>
    /\ ast = Operation(Bool(TRUE), "And", Bool(TRUE))
    /\ verdict.value = TRUE


(***************************************************************************)
(* C11: the tagline grammar accepts a line exactly when it has the shape   *)
(* `tags:`, optional whitespace, `[`, zero or more `#identifier` tokens    *)
(* (adjacent or separated by whitespace), `]`; `tags:[]` yields zero tags, *)
(* and `tags:[##]`, `[#1#2#3]` and `tags:#1#2#3` are parse errors.         *)
(***************************************************************************)
\* the shape, stated character by character on the trimmed line: the
\* keyword, whitespace up to the opening bracket, the closing bracket last,
\* and between the brackets only whitespace and identifiers that each
\* directly follow a hash, every hash starting one
TaglineShape(s) ==
    /\ StartsWith(s, 1, Keyword)
    /\ \E i \in (Len(Keyword) + 1)..(Len(s) - 1) :
          /\ s[i] = "["
          /\ \A k \in (Len(Keyword) + 1)..(i - 1) : IsWs(s[k])
          /\ s[Len(s)] = "]"
          /\ \A k \in (i + 1)..(Len(s) - 1) :
                \/ IsWs(s[k])
                \/ s[k] = "#" /\ s[k + 1] \in IdentChars
                \/ s[k] \in IdentChars /\ s[k - 1] \in IdentChars \cup {"#"}

Taggable(item) ==
    /\ item.kind = "file"
    /\ item.readable
    /\ item.lines # <<>>
    /\ TaglineShape(trim(item.lines[1]))

Positions(n) == [i \in 1..n |-> i]

C13_IndexMembership ==
    pc \in {"w_loop", "w_ok"} =>
       /\ [i \in DOMAIN tagged_files |-> tagged_files[i].path]
             = SelectSeq(Positions(Len(walked)), LAMBDA i : Taggable(walked[i]))
       /\ \A i \in DOMAIN tagged_files :
             \E capture \in Captures :
                tagged_files[i].tags =
                   get_tags_from_file(
                      FileItem(TRUE, <<walked[tagged_files[i].path].lines[1]>>),
                      capture).tags

\* the walk has ended after a file with a malformed first line and a
\* well-formed second line, left out, and a tagged file after it, indexed
C13_Witness ==
    /\ pc = "w_ok"
    /\ walked = << DirItem,
                   FileItem(TRUE, << Concat(<<Keyword, LB, HASH, HASH, RB, NL>>),
                                     Concat(<<Keyword, LB, TagC, RB, NL>>) >>),
                   FileItem(TRUE, << Concat(<<Keyword, LB, TagA, RB, NL>>) >>) >>
    /\ tagged_files = << [path |-> 3, tags |-> <<TagA>>] >>

(***************************************************************************)
(* C14: an I/O error on an individual entry is absorbed: the build of the  *)
(* index still returns Ok with the other taggable files; only a failure of *)
(* the traversal at the root makes get_tags_from_files return an error.    *)
(***************************************************************************)
C14_OnlyRootFatal ==
    pc = "w_err" => Len(walked) = 1

\* C14, as far as it holds: what the code absorbs is the error of
\* get_tags_from_file: an unreadable file never ends the walk nor enters the
\* index, only an item WalkDir could not yield ends it
C14_FileErrorsAbsorbed ==
    /\ pc = "w_err" => walked[Len(walked)].kind = "err"
    /\ \A i \in DOMAIN walked :
          walked[i].kind = "file" /\ ~walked[i].readable =>
             /\ i < Len(walked) => \A j \in 1..i : walked[j].kind # "err"
             /\ \A k \in DOMAIN tagged_files : tagged_files[k].path # i

\* an unreadable file has been passed over and the tagged file after it is
\* in the index returned
C14_Witness ==
    /\ pc = "w_ok"
    /\ walked = << DirItem, FileItem(FALSE, <<>>),
                   FileItem(TRUE, << Concat(<<Keyword, LB, TagA, RB, NL>>) >>) >>
    /\ tagged_files = << [path |-> 3, tags |-> <<TagA>>] >>

(***************************************************************************)
(* C15: a query that fails to parse is fatal: main reports the error and   *)
(* exits with status 1, and before that no file is evaluated against the   *)
(* query, no path is printed and neither command is executed.              *)
(***************************************************************************)
C15_QueryErrorFatal ==
    /\ pc # "main_parse" /\ ~parsed.ok => pc = "exit_1"
    /\ pc = "exit_1" =>
          /\ ~parsed.ok
          /\ visited = <<>>
          /\ stdout = <<>>
          /\ file_matched_index = <<>>
          /\ command_outputs = <<>>
          /\ ~ENABLED Next

\* main has exited on a query with a dangling operator, with files in the
\* index and both commands given
C15_Witness ==
    /\ pc = "exit_1"
    /\ query = Spaced(<<TagA, AND>>)
    /\ Len(file_index) = MaxFiles
    /\ args.command /\ args.filter_command

(***************************************************************************)
(* C16: ordering: the paths main prints and the list it hands to the       *)
(* interactive view are subsequences of the file index, in index order:    *)
(* no file twice, no two files in another order than in the index.         *)
(***************************************************************************)
Increasing(ps) == \A i, j \in DOMAIN ps : i < j => ps[i] < ps[j]

Paths(files) == [i \in DOMAIN files |-> files[i].path]

\* the file index main started with: the files visited, then those to come
WholeIndex == [i \in DOMAIN visited |-> visited[i].file] \o file_index

C16_IndexOrder ==
    /\ Paths(WholeIndex) = Positions(Len(WholeIndex))
    /\ Increasing(stdout)
    /\ Increasing(Paths(file_matched_index))
    /\ \A i \in DOMAIN stdout : stdout[i] \in DOMAIN visited
    /\ \A i \in DOMAIN file_matched_index :
          /\ file_matched_index[i].path \in DOMAIN visited
          /\ file_matched_index[i] = visited[file_matched_index[i].path].file
    /\ Len(command_outputs) = Len(file_matched_index)

\* the first and the last of three files matched, the second did not
C16_Witness ==
    /\ pc = "done"
    /\ stdout = <<1, 3>>
    /\ Paths(file_matched_index) = <<1, 3>>
    /\ Len(visited) = 3

(***************************************************************************)
(* C17: gating of the per-file pipeline: the filter command runs only on a *)
(* file whose tags satisfy the query; a file is accepted (path printed,    *)
(* command executed) only if its tags satisfy the query and, when a filter *)
(* command is given, that command ran and succeeded; each command runs at  *)
(* most once per file; the command runs on an accepted file in silent mode *)
(* too.                                                                    *)
(***************************************************************************)
Accepted(v) ==
    /\ v.verdict.value
    /\ args.filter_command => v.filter_ran /\ v.filter_ok

C17_PipelineGating ==
    /\ \A i \in DOMAIN visited :
          LET v == visited[i]
          IN /\ v.verdict = EvalRun(v.ast)
             /\ v.filter_ran => v.verdict.value /\ args.filter_command
             /\ v.command_ran <=> Accepted(v) /\ args.command
             /\ (\E k \in DOMAIN stdout : stdout[k] = v.file.path)
                   <=> Accepted(v) /\ ~args.interactive
             /\ (\E k \in DOMAIN file_matched_index : file_matched_index[k] = v.file)
                   <=> Accepted(v) /\ ~args.silent
    /\ \A i, j \in DOMAIN visited :
          visited[i].file.path = visited[j].file.path => i = j

\* in silent mode, with both commands: a file whose filter command failed,
\* left out, and a file accepted, on which the command ran
C17_Witness ==
    /\ args.silent /\ args.command /\ args.filter_command
    /\ Len(visited) = 2
    /\ visited[1].filter_ran /\ ~visited[1].filter_ok /\ ~visited[1].command_ran
    /\ visited[2].filter_ran /\ visited[2].filter_ok /\ visited[2].command_ran
    /\ stdout = <<2>>

\* an iteration has handled the key and the loop goes on
Handled(key) == pc = "i_loop" /\ event = key

(***************************************************************************)
(* C18: tab navigation is cyclic over three tabs: tab_index is 0, 1 or 2   *)
(* whenever render_tab_content reads it (unreachable!() is never hit, no   *)
(* subtraction underflows), next-tab on tab 2 selects tab 0, previous-tab  *)
(* on tab 0 selects tab 2.                                                 *)
(***************************************************************************)
C18_TabCyclic ==
    /\ pc \notin {"panic_unreachable", "panic_overflow"}
    /\ interactive_inputs.tab_index \in {0, 1, 2}
    /\ Handled("l") =>
          interactive_inputs.tab_index = (previous_inputs.tab_index + 1) % 3
    /\ Handled("h") /\ previous_inputs.tab_index = 0 =>
          interactive_inputs.tab_index = 2
    /\ Handled("h") /\ previous_inputs.tab_index # 0 =>
          interactive_inputs.tab_index = previous_inputs.tab_index - 1

\* C18 for the copy of inspect.rs, which tests tab_index for 0 before
\* subtracting: there the tabs are cyclic
C18_TabCyclicInspect == build.source = "inspect.rs" => C18_TabCyclic

\* in inspect.rs, previous-tab on tab 0 has selected tab 2
C18_Witness ==
    /\ build.source = "inspect.rs"
    /\ Handled("h")
    /\ previous_inputs.tab_index = 0
    /\ interactive_inputs.tab_index = 2

(***************************************************************************)
(* C19: file navigation wraps around: on a list of n > 0 files, 'n' on     *)
(* file n-1 selects file 0 and 'p' on file 0 selects file n-1, the latter  *)
(* computed as usize::MAX modulo n.                                        *)
(***************************************************************************)
NFiles == Len(file_matched_index)

C19_FileWraps ==
    NFiles > 0 =>
       /\ Handled("n") /\ previous_inputs.file_index = NFiles - 1 =>
             interactive_inputs.file_index = 0
       /\ Handled("p") /\ previous_inputs.file_index = 0 =>
             interactive_inputs.file_index = NFiles - 1

\* C19, as far as it holds: 'n' wraps for every n, and 'p' on file 0
\* selects (2^UsizeBits - 1) modulo n, which is the last file when n divides
\* 2^UsizeBits
C19_FileWrapsPowerOfTwo ==
    NFiles > 0 =>
       /\ Handled("n") =>
             interactive_inputs.file_index = (previous_inputs.file_index + 1) % NFiles
       /\ Handled("p") /\ previous_inputs.file_index = 0 =>
             /\ interactive_inputs.file_index = UsizeRem(USIZE_MAX, NFiles)
             /\ Pow2Mod(UsizeBits, NFiles) = 0 =>
                   interactive_inputs.file_index = NFiles - 1

\* 'p' on the first of two files has selected the second
C19_Witness ==
    /\ NFiles = 2
    /\ Handled("p")
    /\ previous_inputs.file_index = 0
    /\ interactive_inputs.file_index = 1

InBounds ==
    /\ pc = "i_loop" /\ ~interactive_inputs.quit =>
          /\ interactive_inputs.file_index < NFiles
          /\ NFiles = Len(command_outputs)
    /\ pc # "panic_index"

(***************************************************************************)
(* C20: the inspect loop never indexes out of bounds nor divides by zero:  *)
(* at the start of every iteration file_index < files.len() and            *)
(* files.len() = command_outputs.len(), for every list main can pass, the  *)
(* empty list (no file matched, or silent mode forced) included.           *)
(***************************************************************************)
C20_InspectInBounds == InBounds /\ pc # "panic_rem_zero"

\* C20 on a list that is not empty: the indexes stay within it
C20_InBoundsWhenNonEmpty == NFiles > 0 => InBounds

\* the loop has wrapped from the last of the files to the first
C20_Witness ==
    /\ NFiles = MaxInspect
    /\ Handled("n")
    /\ previous_inputs.file_index = MaxInspect - 1
    /\ interactive_inputs.file_index = 0

\* the process has ended: main returned Ok(()) or an Err, or a thread panicked
ProcessEnded ==
    pc \in {"i_exit", "i_err", "panic_command", "panic_index", "panic_overflow",
            "panic_rem_zero", "panic_unreachable", "panic_unwrap"}

\* main.rs:446-449 has gone through: raw mode was enabled and the alternate
\* screen entered (an Err of EnterAlternateScreen ends main with the screen
\* never entered)
EnteredScreen == pc # "i_start" /\ (pc = "i_err" => terminal.alternate_screen)

(***************************************************************************)
(* C21: the terminal is restored on every exit path of interactive mode:   *)
(* once main has enabled raw mode and entered the alternate screen, the    *)
(* process never ends with raw mode still enabled or the alternate screen  *)
(* still entered, whether interactive_output returned on 'q', returned an  *)
(* Err (failed draw, failed event read), or the per-file loop or the       *)
(* inspect loop panicked.                                                  *)
(***************************************************************************)
C21_TerminalRestored == ProcessEnded /\ EnteredScreen => terminal = NoTerminal

\* C21, as far as it holds: of the ends of the process, the one after 'q'
\* with both restoring calls Ok, and only that one, has the terminal restored
C21_RestoredOnlyOnQuit ==
    ProcessEnded /\ EnteredScreen => (terminal = NoTerminal <=> pc = "i_exit")

\* the user pressed 'q' in normal mode and main restored the terminal
C21_Witness ==
    /\ pc = "i_exit"
    /\ event = "q"
    /\ interactive_inputs.quit
    /\ terminal = NoTerminal

\* the bindings of handle_events the inspect UI documents for normal mode
NormalBindings == {"q", "n", "p", "l", "h"}

\* the last iteration ran in command mode, command_mode read key in it and
\* handle_events read the event next
InCommandMode(key, next) ==
    /\ pc = "i_loop"
    /\ previous_inputs.command_mode
    /\ command_key = key
    /\ event = next

\* quit, file_index and tab_index are as they were before the iteration
Untouched ==
    /\ ~interactive_inputs.quit
    /\ interactive_inputs.file_index = previous_inputs.file_index
    /\ interactive_inputs.tab_index = previous_inputs.tab_index

(***************************************************************************)
(* C22: while command mode is active every key press is consumed by        *)
(* command_mode_input and none is interpreted by handle_events as a        *)
(* normal-mode binding: a 'q', 'n', 'p' or tab key that arrives while      *)
(* command_mode is true (a key was just typed into the text area and       *)
(* command mode stays on) never sets quit and never changes file_index or  *)
(* tab_index, however the key arrivals interleave with the loop's draw and *)
(* 50 ms poll.                                                             *)
(***************************************************************************)
C22_CommandModeConsumesKeys ==
    \A key \in NormalBindings :
        InCommandMode("other", key) /\ interactive_inputs.command_mode => Untouched

\* C22, as far as it holds: the key that command_mode_input itself reads is
\* no binding (with no further event within the poll nothing is touched), and
\* in inspect.rs Esc and Enter leave command mode while any other key keeps it
C22_ReadKeyConsumed ==
    \A key \in CmdKeys :
        InCommandMode(key, "none") =>
            /\ Untouched
            /\ build.source = "inspect.rs" =>
                  (interactive_inputs.command_mode <=> key = "other")

\* a key was typed into the text area of inspect.rs and no event followed
C22_Witness ==
    /\ InCommandMode("other", "none")
    /\ build.source = "inspect.rs"
    /\ interactive_inputs.command_mode
    /\ Untouched
====
